---- MODULE Spec2Model ----
(***************************************************************************)
(* State-machine model of openquake.baselib.performance:                   *)
(* PerformanceMonitor (a scoped, nestable time/memory accumulator with a   *)
(* flush to an HDF5 dataset or to stdout) and DummyMonitor (the disabled   *)
(* variant).                                                               *)
(*                                                                         *)
(* Monitors are numbered in creation order; mons[m] holds the attributes   *)
(* of monitor m (vars(self)), children as monitor numbers.                 *)
(***************************************************************************)
EXTENDS Integers, Sequences, FiniteSets, TLC

----------------------------------------------------------------------------
(* Bounds of the model *)

\* monitor objects ever constructed (the root included), in Spec
MaxMon == 3
\* last reading of the clock time.time(), in Spec
MaxTime == 1
\* the same, and the enter/exit cycles a monitor may run between two resets
\* of its accumulators, in SpecMem
MaxMonMem == 2
MaxTimeMem == 1
MaxCyclesMem == 2
\* the same in SpecCycles
MaxMonCyc == 2
MaxTimeCyc == 2
MaxCycles == 3
\* monitors flushing to the one file, and the last clock reading, in
\* SpecConc and SpecLeak
MaxMonConc == 2
MaxTimeConc == 2

----------------------------------------------------------------------------
(* Values *)

\* Python None, for the integer-valued attributes pid and start_mem
None == -1
\* an attribute that the object does not have (never assigned)
NoAttr == -2
\* hdf5path=None
NoPath == "None"
\* the one destination file of the model
Path == "calc.hdf5"
\* what os.getpid() returns
OsPid == 1
\* a pid given explicitly by the caller (pid=... option)
GivenPid == 2
\* one mebibyte: the code divides mem by 1024. twice to get memory_mb
MiB == 1048576
\* resident set sizes a memory_info(proc).rss call may report
RssValues == {MiB, 2 * MiB}
\* psutil.AccessDenied raised by psutil.Process / memory_info
Denied == -3
\* width of the 'operation' field of perf_dt
OpWidth == 50
\* operation names, as sequences of bytes: a short one for the root and one
\* of 51 bytes for the children (names need not be unique)
ShortName == <<111, 112>>
LongName == [i \in 1..(OpWidth + 1) |-> 120]
Ops == {LongName}
\* errors the measured scope may raise ("None": the scope returns normally)
ScopeOutcomes == {"None", "ValueError"}

Min(a, b) == IF a < b THEN a ELSE b

Range(s) == {s[i] : i \in DOMAIN s}

----------------------------------------------------------------------------
VARIABLES
    mons,     \* sequence of monitor objects (records of attributes)
    active,   \* monitors whose `with` block is running (entered, not exited)
    now,      \* the clock, time.time()
    h5,       \* the destination file: [file, dataset, rows]
    last,     \* the last call made: [op, self]
    ret,      \* what the last call returned
    raised,   \* the exception the last call let out to its caller
    io,       \* external effects of the last call, in order
    flushed,  \* monitors flushed with no enter/exit on them or their
              \* direct children since (kept when env.history)
    ncyc,     \* per monitor: completed cycles since its last reset
              \* (kept when env.capped)
    ownsum,   \* per monitor: total length of those cycles
              \* (kept when env.capped)
    env,      \* the scenario: the inputs offered to the calls, the bounds
              \* on them and the history kept; fixed by Init
    flushing  \* per monitor, where flushes run statement by statement: the
              \* position of its flush call, the data it holds, the file
              \* handles it has open and the records it collected so far

vars ==
    <<mons, active, now, h5, last, ret, raised, io, flushed, ncyc, ownsum, env,
      flushing>>

Ids == DOMAIN mons

IsPerf(m) == mons[m].cls = "PerformanceMonitor"
IsDummy(m) == mons[m].cls = "DummyMonitor"

----------------------------------------------------------------------------
(* Constructors *)

\* PerformanceMonitor.__init__(operation, hdf5path, pid, autoflush,
\* measuremem) at clock reading t; exc and start_mem are not assigned.
\* (stop_mem, written by __exit__ and read only in the statement that
\* follows, is a local of PerfExit and not an attribute here.)
PerfInit(operation, hdf5path, pid, autoflush, measuremem, t) ==
    [cls |-> "PerformanceMonitor",
     operation |-> operation,
     hdf5path |-> hdf5path,
     pid |-> pid,
     autoflush |-> autoflush,
     measuremem |-> measuremem,
     mem |-> 0,
     duration |-> 0,
     start_time |-> t,
     children |-> <<>>,
     exc |-> "NoAttr",
     start_mem |-> NoAttr]

\* DummyMonitor.__init__(operation): only operation, hdf5path and pid are
\* assigned; the object has no other attribute (autoflush/measuremem are
\* never read on it and are FALSE here only to keep the record shape)
DummyInit(operation) ==
    [cls |-> "DummyMonitor",
     operation |-> operation,
     hdf5path |-> NoPath,
     pid |-> None,
     autoflush |-> FALSE,
     measuremem |-> FALSE,
     mem |-> NoAttr,
     duration |-> NoAttr,
     start_time |-> NoAttr,
     children |-> <<>>,
     exc |-> "NoAttr",
     start_mem |-> NoAttr]

----------------------------------------------------------------------------
(* PerformanceMonitor: pure parts *)

\* truth value of a pid in `if self.pid:` (None and 0 are false)
PidSet(pid) == pid # None /\ pid # 0

\* measure_mem on monitor object mon, when the memory lookup answers
\* sample (an rss, or Denied for psutil.AccessDenied): the value returned,
\* the pid left on the monitor and whether a lookup was made
measure_mem(mon, sample) ==
    IF PidSet(mon.pid)
    THEN IF sample = Denied
         THEN [value |-> None, pid |-> 0, events |-> <<<<"sample", mon.pid>>>>]
         ELSE [value |-> sample, pid |-> mon.pid,
               events |-> <<<<"sample", mon.pid>>>>]
    ELSE [value |-> None, pid |-> mon.pid, events |-> <<>>]

RECURSIVE Descendants(_, _)
Descendants(ms, cs) ==
    IF cs = <<>> THEN <<>>
    ELSE <<Head(cs)>> \o Descendants(ms, ms[Head(cs)].children)
         \o Descendants(ms, Tail(cs))

\* mutant of Monitors: the collection recurses into the children's children
MonitorsRecursive(ms, m) == <<m>> \o Descendants(ms, ms[m].children)

\* [self] + self.children
Monitors(ms, m) == <<m>> \o ms[m].children

\* an operation name stored in the (bytes, 50) field of perf_dt
OpField(operation) == SubSeq(operation, 1, Min(Len(operation), OpWidth))

\* mon.mem / 1024. / 1024. (mem is a multiple of MiB in the model, so the
\* float quotient is the integer one)
MemoryMb(mem) == (mem \div 1024) \div 1024

\* the tuple get_data appends for monitor object mon, as a perf_dt row
Row(mon) ==
    [operation |-> OpField(mon.operation),
     time_sec |-> mon.duration,
     memory_mb |-> IF mon.measuremem THEN MemoryMb(mon.mem) ELSE 0,
     counts |-> 1]

RECURSIVE RowsOfAll(_, _)
\* mutant of Rows: a record for every monitor, also with zero duration
RowsOfAll(ms, monitors) ==
    IF monitors = <<>> THEN <<>>
    ELSE <<Row(ms[Head(monitors)])>> \o RowsOfAll(ms, Tail(monitors))

RECURSIVE Rows(_, _)
Rows(ms, monitors) ==
    IF monitors = <<>> THEN <<>>
    ELSE (IF ms[Head(monitors)].duration # 0
          THEN <<Row(ms[Head(monitors)])>> ELSE <<>>)
         \o Rows(ms, Tail(monitors))

\* PerformanceMonitor.get_data
get_data(ms, m) == Rows(ms, Monitors(ms, m))

\* the monitors that flush resets, and the reset itself
ResetSet(ms, m) == Range(Monitors(ms, m))

\* mutant of Reset: only the monitor itself is reset, not its children
ResetSelfOnly(ms, m) ==
    [i \in DOMAIN ms |->
        IF i = m THEN [ms[i] EXCEPT !.duration = 0, !.mem = 0] ELSE ms[i]]

\* mutant of Reset: the loop resets every monitor, not only the monitor
\* and its children
ResetAll(ms, m) ==
    [i \in DOMAIN ms |-> [ms[i] EXCEPT !.duration = 0, !.mem = 0]]

Reset(ms, m) ==
    [i \in DOMAIN ms |->
        IF i \in ResetSet(ms, m)
        THEN [ms[i] EXCEPT !.duration = 0, !.mem = 0]
        ELSE ms[i]]

RECURSIVE Prints(_)
Prints(data) ==
    IF data = <<>> THEN <<>>
    ELSE <<<<"print", Head(data)>>>> \o Prints(Tail(data))

\* Hdf5Dataset.create(h5, 'performance_data', perf_dt): a dataset with no
\* row (openquake.baselib.hdf5, the append-only dataset store)
Hdf5DatasetCreate == <<>>

\* Hdf5Dataset.extend(data) on a dataset holding rows: data is appended
Hdf5DatasetExtend(rows, data) == rows \o data

\* mutant of Sink: the dataset is created by every flush, also when the
\* file has it already
SinkRecreates(mon, data, store) ==
    IF mon.hdf5path # NoPath
    THEN [h5 |-> [file |-> TRUE, dataset |-> TRUE,
                  rows |-> Hdf5DatasetExtend(Hdf5DatasetCreate, data)],
          events |-> <<<<"open", mon.hdf5path>>,
                       <<"create", "performance_data">>,
                       <<"extend", Len(data)>>, <<"close", mon.hdf5path>>>>]
    ELSE [h5 |-> store, events |-> Prints(data)]

\* mutant of Sink: with a hdf5path the rows are appended and printed too
SinkBoth(mon, data, store) ==
    IF mon.hdf5path # NoPath
    THEN [h5 |-> [file |-> TRUE, dataset |-> TRUE,
                  rows |-> Hdf5DatasetExtend(
                               IF store.dataset THEN store.rows
                               ELSE Hdf5DatasetCreate, data)],
          events |-> <<<<"open", mon.hdf5path>>>>
                     \o (IF store.dataset THEN <<>>
                         ELSE <<<<"create", "performance_data">>>>)
                     \o <<<<"extend", Len(data)>>, <<"close", mon.hdf5path>>>>
                     \o Prints(data)]
    ELSE [h5 |-> store, events |-> Prints(data)]

\* the sink part of flush, for a non-empty data: h5py.File(path) opens the
\* file (creating it when missing), the dataset is looked up or created,
\* extended and the file closed; without a path each row is printed
Sink(mon, data, store) ==
    IF mon.hdf5path # NoPath
    THEN [h5 |-> [file |-> TRUE, dataset |-> TRUE,
                  rows |-> Hdf5DatasetExtend(
                               IF store.dataset THEN store.rows
                               ELSE Hdf5DatasetCreate, data)],
          events |-> <<<<"open", mon.hdf5path>>>>
                     \o (IF store.dataset THEN <<>>
                         ELSE <<<<"create", "performance_data">>>>)
                     \o <<<<"extend", Len(data)>>, <<"close", mon.hdf5path>>>>]
    ELSE [h5 |-> store, events |-> Prints(data)]

\* mutant of flush: no early return on an empty data
flush_always_writes(ms, m, store) ==
    LET data == get_data(ms, m)
        sink == Sink(ms[m], data, store)
    IN  [mons |-> Reset(ms, m), h5 |-> sink.h5, events |-> sink.events,
         data |-> data]

\* mutant of flush: the records are delivered but the accumulators are not
\* reset
flush_without_reset(ms, m, store) ==
    LET data == get_data(ms, m)
        sink == Sink(ms[m], data, store)
    IN  IF Len(data) = 0
        THEN [mons |-> ms, h5 |-> store, events |-> <<>>, data |-> data]
        ELSE [mons |-> ms, h5 |-> sink.h5, events |-> sink.events,
              data |-> data]

\* PerformanceMonitor.flush on monitor m: the monitors after the reset, the
\* file after the write and the effects, in order
flush(ms, m, store) ==
    LET data == get_data(ms, m)
        sink == Sink(ms[m], data, store)
    IN  IF Len(data) = 0
        THEN [mons |-> Reset(ms, m), h5 |-> store, events |-> <<>>,
              data |-> data]
        ELSE [mons |-> Reset(ms, m), h5 |-> sink.h5, events |-> sink.events,
              data |-> data]

----------------------------------------------------------------------------
(* Spawning a child: __call__(operation, **kw) *)

\* a **kw of __call__: the option names given and their values (the value
\* of a name that is not given is not used)
Kw(keys, hdf5path, pid, autoflush, measuremem) ==
    [keys |-> keys, hdf5path |-> hdf5path, pid |-> pid,
     autoflush |-> autoflush, measuremem |-> measuremem]

NoKw == Kw({}, NoPath, None, FALSE, FALSE)
KwHdf5path == {Kw({"hdf5path"}, h, None, FALSE, FALSE) : h \in {NoPath, Path}}
KwPid == {Kw({"pid"}, NoPath, GivenPid, FALSE, FALSE)}
KwAutoflush == {Kw({"autoflush"}, NoPath, None, b, FALSE) : b \in BOOLEAN}

\* vars(new).update(kw)
UpdateKw(new, kw) ==
    [new EXCEPT
        !.hdf5path = IF "hdf5path" \in kw.keys THEN kw.hdf5path ELSE @,
        !.pid = IF "pid" \in kw.keys THEN kw.pid ELSE @,
        !.autoflush = IF "autoflush" \in kw.keys THEN kw.autoflush ELSE @,
        !.measuremem = IF "measuremem" \in kw.keys THEN kw.measuremem ELSE @]

\* vars(new).update(self_vars): every attribute of the parent object except
\* operation, children and pid is written over the fresh object's
UpdateSelfVars(new, parent) ==
    [parent EXCEPT !.operation = new.operation,
                   !.children = new.children,
                   !.pid = new.pid]

\* the object PerformanceMonitor.__call__ builds from parent object at time t
PerfChild(parent, operation, kw, t) ==
    UpdateKw(UpdateSelfVars(PerfInit(operation, NoPath, None, FALSE, FALSE, t),
                            parent), kw)

\* mutant of PerfCall: the child is put in front of the parent's children
PerfCallPrepends(ms, p, operation, kw, t) ==
    Append([ms EXCEPT ![p].children = <<Len(ms) + 1>> \o @],
           PerfChild(ms[p], operation, kw, t))

\* PerformanceMonitor.__call__: the child is appended to the parent's
\* children and to the objects of the model
PerfCall(ms, p, operation, kw, t) ==
    Append([ms EXCEPT ![p].children = Append(@, Len(ms) + 1)],
           PerfChild(ms[p], operation, kw, t))

\* DummyMonitor.__call__: a new DummyMonitor, kw dropped, nothing appended
DummyCall(ms, p, operation, kw) == Append(ms, DummyInit(operation))

----------------------------------------------------------------------------
(* Enter and exit *)

\* mutant of PerfEnter: the pid is set to os.getpid() whether it was set
\* or not
PerfEnterAlwaysGetpid(mon, t, sample) ==
    LET mon1 == [mon EXCEPT !.pid = OsPid, !.exc = "None", !.start_time = t]
        mm == measure_mem(mon1, sample)
    IN  IF mon1.measuremem
        THEN [mon |-> [mon1 EXCEPT !.pid = mm.pid, !.start_mem = mm.value],
              events |-> mm.events]
        ELSE [mon |-> mon1, events |-> <<>>]

\* PerformanceMonitor.__enter__ at time t; sample answers the memory lookup
PerfEnter(mon, t, sample) ==
    LET pid1 == IF mon.pid = None THEN OsPid ELSE mon.pid
        mon1 == [mon EXCEPT !.pid = pid1, !.exc = "None", !.start_time = t]
        mm == measure_mem(mon1, sample)
    IN  IF mon1.measuremem
        THEN [mon |-> [mon1 EXCEPT !.pid = mm.pid, !.start_mem = mm.value],
              events |-> mm.events]
        ELSE [mon |-> mon1, events |-> <<>>]

\* stop_mem - start_mem raises TypeError when either is None
CanSubtract(a, b) == a # None /\ b # None

\* PerformanceMonitor.__exit__ up to the call of on_exit, at time t, for a
\* scope that ended with exc: the object left, and whether the bookkeeping
\* itself raised (TypeError at `self.mem += ...`, before duration is added)
PerfExit(mon, exc, t, sample) ==
    LET mon1 == [mon EXCEPT !.exc = exc]
        mm == measure_mem(mon1, sample)
        stop_mem == mm.value
        mon2 == [mon1 EXCEPT !.pid = mm.pid]
    IN  IF mon1.measuremem
        THEN IF CanSubtract(stop_mem, mon2.start_mem)
             THEN [mon |-> [mon2 EXCEPT
                              !.mem = @ + (stop_mem - mon2.start_mem),
                              !.duration = @ + (t - mon2.start_time)],
                   error |-> "None", events |-> mm.events]
             ELSE [mon |-> mon2, error |-> "TypeError", events |-> mm.events]
        ELSE [mon |-> [mon1 EXCEPT !.duration = @ + (t - mon1.start_time)],
              error |-> "None", events |-> <<>>]

\* on_exit on monitor m: flush when autoflush is set
on_exit(ms, m, store) ==
    IF ms[m].autoflush
    THEN flush(ms, m, store)
    ELSE [mons |-> ms, h5 |-> store, events |-> <<>>, data |-> <<>>]

----------------------------------------------------------------------------
(* DummyMonitor: the overrides *)

\* DummyMonitor.__enter__: return self
DummyEnter(mon, t, sample) == [mon |-> mon, events |-> <<>>]

\* mutant of DummyExit: __exit__ is not overridden and does the bookkeeping
\* of PerformanceMonitor
DummyExitInherited(mon, exc, t, sample) == PerfExit(mon, exc, t, sample)

\* DummyMonitor.__exit__: pass
DummyExit(mon, exc, t, sample) ==
    [mon |-> mon, error |-> "None", events |-> <<>>]

\* DummyMonitor.flush: pass
DummyFlush(ms, m, store) ==
    [mons |-> ms, h5 |-> store, events |-> <<>>, data |-> <<>>]

----------------------------------------------------------------------------
(* The state machine *)

\* the answers a memory lookup may give
Samples == RssValues \cup {Denied}
\* stands for the answer where no lookup is made
NoSample == None

\* the monitors that have m among their direct children
Parents(ms, m) == {p \in DOMAIN ms : m \in Range(ms[p].children)}

\* the per-monitor counters g after the accumulators of the monitors in
\* rs were reset
Cleared(g, rs) == [i \in DOMAIN g |-> IF i \in rs THEN 0 ELSE g[i]]

EmptyStore == [file |-> FALSE, dataset |-> FALSE, rows |-> <<>>]

InitWith(roots, scenario) ==
    /\ mons \in {<<r>> : r \in roots}
    /\ active = {}
    /\ now = 0
    /\ h5 = EmptyStore
    /\ last = [op |-> "init", self |-> 1]
    /\ ret = <<>>
    /\ raised = "None"
    /\ io = <<>>
    /\ flushed = {}
    /\ ncyc = <<0>>
    /\ ownsum = <<0>>
    /\ env = scenario
    /\ flushing = <<>>

\* Spec: timing, hierarchy and sinks. Memory measurement is off and the
\* measured scopes return normally; cycles are neither counted nor bounded
\* and no history is kept (flushed stays empty, ncyc and ownsum stay 0).
Roots ==
    {PerfInit(ShortName, h, None, a, FALSE, 0) :
        h \in {NoPath, Path}, a \in BOOLEAN}
    \cup {DummyInit(ShortName)}

Scenario ==
    [maxmon |-> MaxMon, maxtime |-> MaxTime, capped |-> FALSE,
     maxcycles |-> 0, history |-> FALSE,
     kws |-> {NoKw} \cup KwAutoflush,
     samples |-> {NoSample}, outcomes |-> {"None"}]

Init == InitWith(Roots, Scenario)

\* SpecDummy: the same calls on a DummyMonitor and the DummyMonitors
\* spawned from it.
InitDummy == InitWith({DummyInit(ShortName)}, Scenario)

\* SpecMem: memory measurement (a child may switch it off, or be given a
\* pid), denied lookups and failing scopes, with the console as the sink;
\* cycles are counted.
RootsMem ==
    {PerfInit(ShortName, NoPath, None, a, TRUE, 0) : a \in BOOLEAN}
    \cup {DummyInit(ShortName)}

ScenarioMem ==
    [maxmon |-> MaxMonMem, maxtime |-> MaxTimeMem, capped |-> TRUE,
     maxcycles |-> MaxCyclesMem, history |-> FALSE,
     kws |-> {NoKw, Kw({"measuremem"}, NoPath, None, FALSE, FALSE)}
             \cup KwPid,
     samples |-> Samples, outcomes |-> ScopeOutcomes]

InitMem == InitWith(RootsMem, ScenarioMem)

\* SpecCycles: a parent and a child whose cycles are counted, every option
\* of __call__ offered, memory measurement off.
RootsCyc ==
    {PerfInit(ShortName, h, None, a, FALSE, 0) :
        h \in {NoPath, Path}, a \in BOOLEAN}
    \cup {DummyInit(ShortName)}

ScenarioCyc ==
    [maxmon |-> MaxMonCyc, maxtime |-> MaxTimeCyc, capped |-> TRUE,
     maxcycles |-> MaxCycles, history |-> TRUE,
     kws |-> {NoKw} \cup KwHdf5path \cup KwAutoflush \cup KwPid,
     samples |-> {NoSample}, outcomes |-> {"None"}]

InitCyc == InitWith(RootsCyc, ScenarioCyc)

\* the answers to offer to a call on m: a lookup is made only by a
\* PerformanceMonitor with measuremem set
SamplesFor(m) ==
    IF IsPerf(m) /\ mons[m].measuremem THEN env.samples ELSE {NoSample}

\* the clock advances
Tick ==
    /\ now < env.maxtime
    /\ now' = now + 1
    /\ UNCHANGED <<mons, active, h5, last, ret, raised, io, flushed, ncyc,
                   ownsum, env, flushing>>

\* child = p(operation, **kw)
Spawn(p, operation, kw) ==
    /\ Len(mons) < env.maxmon
    /\ mons' = IF IsPerf(p) THEN PerfCall(mons, p, operation, kw, now)
               ELSE DummyCall(mons, p, operation, kw)
    /\ last' = [op |-> "spawn", self |-> p]
    /\ ret' = <<Len(mons) + 1>>
    /\ raised' = "None"
    /\ io' = <<>>
    /\ ncyc' = Append(ncyc, 0)
    /\ ownsum' = Append(ownsum, 0)
    /\ UNCHANGED <<active, now, h5, flushed, env, flushing>>

\* `with m:` reaches the body
Enter(m, sample) ==
    /\ m \notin active
    /\ env.capped => ncyc[m] < env.maxcycles
    /\ LET r == IF IsPerf(m) THEN PerfEnter(mons[m], now, sample)
                ELSE DummyEnter(mons[m], now, sample)
       IN  /\ mons' = [mons EXCEPT ![m] = r.mon]
           /\ io' = r.events
    /\ active' = active \cup {m}
    /\ last' = [op |-> "enter", self |-> m]
    /\ ret' = <<m>>
    /\ raised' = "None"
    /\ flushed' = flushed \ ({m} \cup Parents(mons, m))
    /\ UNCHANGED <<now, h5, ncyc, ownsum, env, flushing>>

\* the body of `with m:` ends with exc ("None": normally) and __exit__ runs;
\* __exit__ returns None, so exc goes on to the caller unless __exit__
\* itself raised
Exit(m, exc, sample) ==
    /\ m \in active
    /\ active' = active \ {m}
    /\ last' = [op |-> "exit", self |-> m]
    /\ ret' = <<>>
    /\ UNCHANGED <<now, env, flushing>>
    /\ IF IsPerf(m)
       THEN LET r == PerfExit(mons[m], exc, now, sample)
                ms1 == [mons EXCEPT ![m] = r.mon]
                f == on_exit(ms1, m, h5)
                n1 == IF env.capped THEN [ncyc EXCEPT ![m] = @ + 1] ELSE ncyc
                o1 == IF env.capped
                      THEN [ownsum EXCEPT
                              ![m] = @ + (now - mons[m].start_time)]
                      ELSE ownsum
                unflushed == flushed \ ({m} \cup Parents(mons, m))
            IN  IF r.error = "None"
                THEN /\ mons' = f.mons
                     /\ h5' = f.h5
                     /\ io' = r.events \o f.events
                     /\ raised' = exc
                     /\ IF ms1[m].autoflush
                        THEN /\ flushed' = IF env.history
                                         THEN unflushed \cup {m}
                                         ELSE flushed
                             /\ ncyc' = Cleared(n1, ResetSet(ms1, m))
                             /\ ownsum' = Cleared(o1, ResetSet(ms1, m))
                        ELSE /\ flushed' = unflushed
                             /\ ncyc' = n1
                             /\ ownsum' = o1
                ELSE /\ mons' = ms1
                     /\ h5' = h5
                     /\ io' = r.events
                     /\ raised' = r.error
                     /\ flushed' = unflushed
                     /\ ncyc' = n1
                     /\ ownsum' = o1
       ELSE LET r == DummyExit(mons[m], exc, now, sample)
            IN  /\ mons' = [mons EXCEPT ![m] = r.mon]
                /\ io' = r.events
                /\ raised' = IF r.error = "None" THEN exc ELSE r.error
                /\ UNCHANGED <<h5, flushed, ncyc, ownsum>>

\* m.flush()
Flush(m) ==
    /\ last' = [op |-> "flush", self |-> m]
    /\ ret' = <<>>
    /\ raised' = "None"
    /\ UNCHANGED <<active, now, env, flushing>>
    /\ IF IsPerf(m)
       THEN LET f == flush(mons, m, h5)
            IN  /\ mons' = f.mons
                /\ h5' = f.h5
                /\ io' = f.events
                /\ flushed' = IF env.history THEN flushed \cup {m}
                               ELSE flushed
                /\ ncyc' = Cleared(ncyc, ResetSet(mons, m))
                /\ ownsum' = Cleared(ownsum, ResetSet(mons, m))
       ELSE LET f == DummyFlush(mons, m, h5)
            IN  /\ mons' = f.mons
                /\ h5' = f.h5
                /\ io' = f.events
                /\ UNCHANGED <<flushed, ncyc, ownsum>>

\* m.get_data(); DummyMonitor inherits get_data and has no children
\* attribute, so the call raises AttributeError there
GetData(m) ==
    /\ last' = [op |-> "get_data", self |-> m]
    /\ ret' = IF IsPerf(m) THEN get_data(mons, m) ELSE <<>>
    /\ raised' = IF IsPerf(m) THEN "None" ELSE "AttributeError"
    /\ io' = <<>>
    /\ UNCHANGED <<mons, active, now, h5, flushed, ncyc, ownsum, env,
                   flushing>>

Next ==
    \/ Tick
    \/ \E p \in Ids, operation \in Ops, kw \in env.kws :
          Spawn(p, operation, kw)
    \/ \E m \in Ids : \E sample \in SamplesFor(m) : Enter(m, sample)
    \/ \E m \in Ids, exc \in env.outcomes :
          \E sample \in SamplesFor(m) : Exit(m, exc, sample)
    \/ \E m \in Ids : Flush(m)
    \/ \E m \in Ids : GetData(m)

Spec == Init /\ [][Next]_vars

SpecDummy == InitDummy /\ [][Next]_vars

SpecMem == InitMem /\ [][Next]_vars

SpecCycles == InitCyc /\ [][Next]_vars

----------------------------------------------------------------------------
(* flush statement by statement: several monitors, each run by a thread or *)
(* a process of its own, flush to the one file. The file is taken at its   *)
(* most favourable: every call on it is atomic and sees what the calls     *)
(* before it did.                                                          *)

\* a monitor that is not inside flush
Idle == [pc |-> "idle", data |-> <<>>, open |-> 0, sent |-> 0]

\* how pdata.extend(data) may end: it returns, or the write fails
ExtendOutcomes == {"None", "IOError"}

ScenarioConc ==
    [maxmon |-> MaxMonConc, maxtime |-> MaxTimeConc, capped |-> FALSE,
     maxcycles |-> 0, history |-> FALSE, kws |-> {NoKw},
     samples |-> {NoSample}, outcomes |-> {"None"}, extends |-> {"None"}]

ScenarioLeak == [ScenarioConc EXCEPT !.extends = ExtendOutcomes]

\* MaxMonConc monitors constructed with the same hdf5path
InitShared(scenario) ==
    /\ mons = [i \in 1..MaxMonConc |->
                 PerfInit(IF i = 1 THEN ShortName ELSE LongName, Path, None,
                          FALSE, FALSE, 0)]
    /\ active = {}
    /\ now = 0
    /\ h5 = EmptyStore
    /\ last = [op |-> "init", self |-> 1]
    /\ ret = <<>>
    /\ raised = "None"
    /\ io = <<>>
    /\ flushed = {}
    /\ ncyc = [i \in 1..MaxMonConc |-> 0]
    /\ ownsum = [i \in 1..MaxMonConc |-> 0]
    /\ env = scenario
    /\ flushing = [i \in 1..MaxMonConc |-> Idle]

InitConc == InitShared(ScenarioConc)

InitLeak == InitShared(ScenarioLeak)

\* what every statement of flush leaves alone or sets the same way
FlushStep(m) ==
    /\ last' = [op |-> "flush", self |-> m]
    /\ ret' = <<>>
    /\ UNCHANGED <<active, now, flushed, ncyc, ownsum, env>>

\* flush up to the sink: get_data, the reset, the return on an empty data
\* and the printing when there is no hdf5path
FlushBegin(m) ==
    /\ IsPerf(m)
    /\ flushing[m].pc = "idle"
    /\ FlushStep(m)
    /\ mons' = Reset(mons, m)
    /\ raised' = "None"
    /\ h5' = h5
    /\ LET data == get_data(mons, m)
       IN  IF Len(data) = 0
           THEN io' = <<>> /\ flushing' = flushing
           ELSE IF mons[m].hdf5path # NoPath
           THEN /\ io' = <<>>
                /\ flushing' = [flushing EXCEPT ![m].pc = "open",
                                                ![m].data = data,
                                                ![m].sent = @ + Len(data)]
           ELSE io' = Prints(data) /\ flushing' = flushing

\* h5 = h5py.File(self.hdf5path): the file is created when missing
FlushOpen(m) ==
    /\ flushing[m].pc = "open"
    /\ FlushStep(m)
    /\ h5' = [h5 EXCEPT !.file = TRUE]
    /\ flushing' = [flushing EXCEPT ![m].pc = "lookup", ![m].open = @ + 1]
    /\ io' = <<<<"open", mons[m].hdf5path>>>>
    /\ raised' = "None"
    /\ mons' = mons

\* h5['performance_data']: found, or KeyError, which is caught
FlushLookup(m) ==
    /\ flushing[m].pc = "lookup"
    /\ FlushStep(m)
    /\ flushing' = [flushing EXCEPT
                      ![m].pc = IF h5.dataset THEN "extend" ELSE "create"]
    /\ io' = <<>>
    /\ raised' = "None"
    /\ UNCHANGED <<mons, h5>>

\* Hdf5Dataset.create(h5, 'performance_data', perf_dt) in the except
\* branch: a name that exists by now cannot be created again, and the
\* error leaves flush with the file open
FlushCreate(m) ==
    /\ flushing[m].pc = "create"
    /\ FlushStep(m)
    /\ mons' = mons
    /\ IF h5.dataset
       THEN /\ raised' = "ValueError"
            /\ flushing' = [flushing EXCEPT ![m].pc = "idle",
                                            ![m].data = <<>>]
            /\ io' = <<>>
            /\ h5' = h5
       ELSE /\ raised' = "None"
            /\ flushing' = [flushing EXCEPT ![m].pc = "extend"]
            /\ io' = <<<<"create", "performance_data">>>>
            /\ h5' = [h5 EXCEPT !.dataset = TRUE, !.rows = Hdf5DatasetCreate]

\* pdata.extend(data); when it raises, flush is left with the file open
FlushExtend(m, outcome) ==
    /\ flushing[m].pc = "extend"
    /\ FlushStep(m)
    /\ mons' = mons
    /\ raised' = outcome
    /\ IF outcome = "None"
       THEN /\ h5' = [h5 EXCEPT
                        !.rows = Hdf5DatasetExtend(@, flushing[m].data)]
            /\ flushing' = [flushing EXCEPT ![m].pc = "close"]
            /\ io' = <<<<"extend", Len(flushing[m].data)>>>>
       ELSE /\ h5' = h5
            /\ flushing' = [flushing EXCEPT ![m].pc = "idle",
                                            ![m].data = <<>>]
            /\ io' = <<>>

\* h5.close(), and flush returns
FlushClose(m) ==
    /\ flushing[m].pc = "close"
    /\ FlushStep(m)
    /\ flushing' = [flushing EXCEPT ![m].pc = "idle", ![m].data = <<>>,
                                    ![m].open = @ - 1]
    /\ io' = <<<<"close", mons[m].hdf5path>>>>
    /\ raised' = "None"
    /\ UNCHANGED <<mons, h5>>

\* the monitors measure and flush, each in its own thread of control: a
\* monitor inside flush makes no other call
NextConc ==
    \/ Tick
    \/ \E m \in Ids : flushing[m].pc = "idle" /\ Enter(m, NoSample)
    \/ \E m \in Ids : flushing[m].pc = "idle" /\ Exit(m, "None", NoSample)
    \/ \E m \in Ids : FlushBegin(m)
    \/ \E m \in Ids : FlushOpen(m)
    \/ \E m \in Ids : FlushLookup(m)
    \/ \E m \in Ids : FlushCreate(m)
    \/ \E m \in Ids : \E outcome \in env.extends : FlushExtend(m, outcome)
    \/ \E m \in Ids : FlushClose(m)

SpecConc == InitConc /\ [][NextConc]_vars

SpecLeak == InitLeak /\ [][NextConc]_vars

TypeOK ==
    /\ Len(mons) \in 1..env.maxmon
    /\ now \in 0..env.maxtime
    /\ active \subseteq Ids
    /\ \A m \in Ids : ncyc[m] \in 0..env.maxcycles

----------------------------------------------------------------------------
(* Helpers of the properties. They read the attributes directly, not       *)
(* through the operators that model the code.                              *)

\* m and its direct children
Direct(ms, m) == {m} \cup {ms[m].children[i] : i \in DOMAIN ms[m].children}

\* the children of the children of m
Grandchildren(ms, m) ==
    UNION {{ms[c].children[i] : i \in DOMAIN ms[c].children} :
             c \in Direct(ms, m) \ {m}}

AllZero(ms, m) ==
    \A i \in Direct(ms, m) : ms[i].duration = 0 /\ ms[i].mem = 0

----------------------------------------------------------------------------
(* C1 *)

\* C1 (as claimed): the child returned by __call__ starts fresh whatever
\* the parent's state: duration and mem are 0, children is empty, pid is
\* unset; hdf5path, autoflush and measuremem are the parent's, unless given
\* in kw (which may also give the pid).
C1_ChildStartsFresh ==
    [][\A p \in Ids : \A operation \in Ops, kw \in env.kws :
          (IsPerf(p) /\ Spawn(p, operation, kw)) =>
              LET child == mons'[Len(mons')]
                  Opt(name, given, inherited) ==
                      IF name \in kw.keys THEN given ELSE inherited
              IN  /\ child.duration = 0
                  /\ child.mem = 0
                  /\ child.children = <<>>
                  /\ child.pid = Opt("pid", kw.pid, None)
                  /\ child.hdf5path =
                        Opt("hdf5path", kw.hdf5path, mons[p].hdf5path)
                  /\ child.autoflush =
                        Opt("autoflush", kw.autoflush, mons[p].autoflush)
                  /\ child.measuremem =
                        Opt("measuremem", kw.measuremem, mons[p].measuremem)
       ]_vars

----------------------------------------------------------------------------
(* C2 *)

\* C2: flush is idempotent. Once m was flushed, and as long as no enter or
\* exit ran on m or on a direct child of m (m \in flushed), a flush of m
\* writes nothing and delivers nothing, and get_data on m returns no record.
C2_FlushIdempotent ==
    [][\A m \in Ids :
          (IsPerf(m) /\ m \in flushed) =>
              /\ Flush(m) => (h5' = h5 /\ io' = <<>>)
              /\ GetData(m) => ret' = <<>>
       ]_vars

\* a get_data on a flushed parent of a child returned nothing, after a flush
\* that did write to the file
C2_Witness ==
    /\ last.op = "get_data"
    /\ IsPerf(last.self)
    /\ last.self \in flushed
    /\ mons[last.self].children # <<>>
    /\ h5.rows # <<>>
    /\ ret = <<>>

----------------------------------------------------------------------------
(* C3 *)

\* C3 (as claimed): get_data itself resets: right after get_data on m the
\* duration and mem of m and of each direct child are 0.
C3_GetDataResets ==
    (last.op = "get_data" /\ IsPerf(last.self)) => AllZero(mons, last.self)

\* C3 (amended): the reset is done by flush, in the same operation that
\* collects the records: after flush on m the duration and mem of m and of
\* each direct child are 0 and get_data on m returns nothing. get_data
\* itself changes no monitor, and a second get_data right after the first
\* returns the same records.
C3_FlushResets ==
    [][\A m \in Ids :
          IsPerf(m) =>
              /\ Flush(m) => (AllZero(mons', m) /\ get_data(mons', m) = <<>>)
              /\ GetData(m) => mons' = mons
              /\ (GetData(m) /\ last = [op |-> "get_data", self |-> m])
                    => ret' = ret
       ]_vars

\* get_data returned records and the accumulators are still there
C3_Witness ==
    /\ last.op = "get_data"
    /\ IsPerf(last.self)
    /\ ret # <<>>
    /\ mons[last.self].duration # 0
    /\ \E c \in Direct(mons, last.self) : mons[c].mem # 0

----------------------------------------------------------------------------
(* C4 *)

\* C4 (as claimed): on a monitor whose memory lookup was denied (its pid was
\* cleared to 0) enter and exit do not raise: the caller of an exit gets
\* the error of the measured scope or none, never one of the bookkeeping;
\* and the cycle's length was added to duration (no flush having reset it).
C4_DeniedDoesNotRaise ==
    \A m \in Ids :
        (IsPerf(m) /\ mons[m].pid = 0 /\ last.self = m
            /\ last.op \in {"enter", "exit"}) =>
            /\ raised \in env.outcomes
            /\ (last.op = "exit" /\ ~mons[m].autoflush)
                  => mons[m].duration >= ownsum[m]

----------------------------------------------------------------------------
(* C5 *)

\* C5 (as claimed): when the measured scope raised, exit stored the error
\* on the monitor, added the length of the cycle to duration (reset again
\* when autoflush is set) and let the same error out to the caller.
C5_ScopeErrorPropagates ==
    \A m \in Ids :
        (IsPerf(m) /\ last = [op |-> "exit", self |-> m]
            /\ mons[m].exc = "ValueError") =>
            /\ raised = "ValueError"
            /\ IF mons[m].autoflush THEN mons[m].duration = 0
               ELSE mons[m].duration >= ownsum[m]

----------------------------------------------------------------------------
(* C6 *)

\* C6 (as claimed): after the parent ran one cycle and a child spawned from
\* it ran three, both of nonzero total length and with no flush, collecting
\* from the parent gives exactly two records, the parent's then the
\* child's, each with the total length of that monitor's own cycles and
\* counts = 1.
C6_OwnDurations ==
    \A p \in Ids :
        \A c \in Direct(mons, p) \ {p} :
            (IsPerf(p) /\ mons[p].children = <<c>>
                /\ ncyc[p] = 1 /\ ncyc[c] = 3
                /\ ownsum[p] # 0 /\ ownsum[c] # 0) =>
                LET data == get_data(mons, p)
                IN  /\ Len(data) = 2
                    /\ data[1].time_sec = ownsum[p]
                    /\ data[2].time_sec = ownsum[c]
                    /\ data[1].counts = 1
                    /\ data[2].counts = 1

----------------------------------------------------------------------------
(* What a call delivered *)

RECURSIVE Printed(_)
\* the rows printed, in order, among the effects es
Printed(es) ==
    IF es = <<>> THEN <<>>
    ELSE (IF Head(es)[1] = "print" THEN <<Head(es)[2]>> ELSE <<>>)
         \o Printed(Tail(es))

\* the rows a step appended to the dataset
Appended == SubSeq(h5'.rows, Len(h5.rows) + 1, Len(h5'.rows))

\* the rows a step delivered to either sink
Delivered == Printed(io') \o Appended

RECURSIVE TotalTime(_)
TotalTime(rows) ==
    IF rows = <<>> THEN 0 ELSE Head(rows).time_sec + TotalTime(Tail(rows))

RECURSIVE TotalDuration(_, _)
\* the sum of the durations of the monitors in the set S
TotalDuration(ms, S) ==
    IF S = {} THEN 0
    ELSE LET i == CHOOSE j \in S : TRUE
         IN  ms[i].duration + TotalDuration(ms, S \ {i})

\* rows can only come from m and its direct children: at most one row for
\* each, each row that of one of them, and as much time in all as they hold
FromDirect(rows, ms, m) ==
    /\ Len(rows) <= Cardinality(Direct(ms, m))
    /\ \A k \in DOMAIN rows :
          \E i \in Direct(ms, m) :
              /\ rows[k].time_sec = ms[i].duration
              /\ rows[k].operation = OpField(ms[i].operation)
    /\ TotalTime(rows) = TotalDuration(ms, Direct(ms, m))

----------------------------------------------------------------------------
(* C7 *)

\* C7: collection is one level deep. The records returned by get_data on m
\* and those delivered by a flush of m come from m and its direct children
\* only and hold their durations and nothing more; a flush of m leaves the
\* grandchildren of m as they were.
C7_OneLevelDeep ==
    [][\A m \in Ids :
          IsPerf(m) =>
              /\ GetData(m) => FromDirect(ret', mons, m)
              /\ Flush(m) =>
                    /\ FromDirect(Delivered, mons, m)
                    /\ \A g \in Grandchildren(mons, m) \ Direct(mons, m) :
                          mons'[g] = mons[g]
       ]_vars

\* the root was flushed and delivered records while its grandchild holds a
\* duration of its own
C7_Witness ==
    /\ last = [op |-> "flush", self |-> 1]
    /\ IsPerf(1)
    /\ Printed(io) # <<>>
    /\ \E g \in Grandchildren(mons, 1) : mons[g].duration # 0

----------------------------------------------------------------------------
(* C8 *)

\* the k-th monitor, in the order m then children, with a nonzero duration
KthNonzero(ms, order, k) ==
    order[CHOOSE i \in DOMAIN order :
            /\ ms[order[i]].duration # 0
            /\ Cardinality({j \in 1..i : ms[order[j]].duration # 0}) = k]

\* C8: get_data returns, in the order self then the children in spawn
\* order, one record for each of these monitors with a nonzero duration and
\* none for the others; time_sec is the monitor's duration, counts is 1.
C8_EmissionRule ==
    (last.op = "get_data" /\ IsPerf(last.self)) =>
        LET m == last.self
            order == <<m>> \o mons[m].children
            nonzero == {i \in DOMAIN order : mons[order[i]].duration # 0}
        IN  /\ \A i, j \in DOMAIN mons[m].children :
                  i < j => mons[m].children[i] < mons[m].children[j]
            /\ Len(ret) = Cardinality(nonzero)
            /\ \A k \in DOMAIN ret :
                  LET mon == mons[KthNonzero(mons, order, k)]
                  IN  /\ ret[k].time_sec = mon.duration
                      /\ ret[k].operation = OpField(mon.operation)
                      /\ ret[k].counts = 1

\* get_data on a parent of two children returned two records and left one
\* monitor out, the first child
C8_Witness ==
    /\ last.op = "get_data"
    /\ IsPerf(last.self)
    /\ Len(mons[last.self].children) = 2
    /\ mons[mons[last.self].children[1]].duration = 0
    /\ Len(ret) = 2

----------------------------------------------------------------------------
(* C9 *)

\* C9: a flush of a monitor whose duration and whose direct children's
\* durations are all zero opens no file, creates no dataset and prints
\* nothing.
C9_EmptyFlushWritesNothing ==
    [][\A m \in Ids :
          (IsPerf(m) /\ Flush(m)
              /\ \A i \in Direct(mons, m) : mons[i].duration = 0) =>
              (h5' = h5 /\ io' = <<>>)
       ]_vars

\* a parent with a destination, which ran a cycle of length zero, was
\* flushed and the file does not exist
C9_Witness ==
    /\ last.op = "flush"
    /\ IsPerf(last.self)
    /\ mons[last.self].hdf5path = Path
    /\ mons[last.self].children # <<>>
    /\ mons[last.self].exc = "None"
    /\ h5 = EmptyStore
    /\ io = <<>>

----------------------------------------------------------------------------
(* C10 *)

\* C10: DummyMonitor is a no-op. A DummyMonitor keeps the three attributes
\* its constructor gave it through every enter, exit, spawn and flush (no
\* duration, no mem); these calls look up no memory, write and print
\* nothing, return no record, and spawn returns another DummyMonitor.
C10_DummyNoOp ==
    /\ \A m \in Ids :
          IsDummy(m) => mons[m] = DummyInit(mons[m].operation)
    /\ (IsDummy(last.self)
          /\ last.op \in {"enter", "exit", "spawn", "flush"}) =>
          /\ io = <<>>
          /\ h5 = EmptyStore
          /\ last.op = "spawn" => (ret # <<>> /\ IsDummy(ret[1]))
          /\ last.op \in {"exit", "flush"} => ret = <<>>

\* a spawned DummyMonitor left a scope that lasted
C10_Witness ==
    /\ last.op = "exit"
    /\ last.self > 1
    /\ IsDummy(last.self)
    /\ now > 0

----------------------------------------------------------------------------
(* C11 *)

\* C11 (as claimed): with autoflush set, every exit of a scope, normal or
\* not, flushes before it returns: the record of a cycle that lasted is
\* delivered to the sink, and right after the exit the duration and mem of
\* the monitor and of each direct child are 0. With autoflush unset the
\* exit writes and prints nothing and resets nothing.
C11_AutoflushOnExit ==
    [][\A m \in Ids : \A exc \in env.outcomes :
          \A sample \in SamplesFor(m) :
              (IsPerf(m) /\ Exit(m, exc, sample)) =>
                  IF mons[m].autoflush
                  THEN /\ AllZero(mons', m)
                       /\ now > mons[m].start_time => Delivered # <<>>
                  ELSE /\ h5' = h5
                       /\ Printed(io') = <<>>
                       /\ \A c \in Direct(mons, m) \ {m} : mons'[c] = mons[c]
                       /\ mons'[m].duration >= mons[m].duration
       ]_vars

----------------------------------------------------------------------------
(* C12 *)

\* C12 (as claimed): on a monitor with measuremem off, enter and exit make
\* no memory lookup, mem is 0 at all times and the record collected for it
\* has memory_mb = 0.
C12_NoMemoryWhenOff ==
    \A m \in Ids :
        (IsPerf(m) /\ ~mons[m].measuremem) =>
            /\ mons[m].mem = 0
            /\ (last.self = m /\ last.op \in {"enter", "exit"}) =>
                  \A k \in DOMAIN io : io[k][1] # "sample"
            /\ Row(mons[m]).memory_mb = 0

----------------------------------------------------------------------------
(* C13 *)

\* C13 (as claimed): duration accumulates across cycles. After the N >= 1
\* cycles a monitor completed since its accumulators were last reset (or
\* since it was created), its duration is the sum of their lengths;
\* a step never lowers a duration except to 0, and then the step is a flush
\* (called directly or by the exit of a monitor with autoflush) of the
\* monitor or of its parent.
C13_DurationAccumulates ==
    [][\A m \in Ids :
          IsPerf(m) =>
              /\ ncyc'[m] >= 1 => mons'[m].duration = ownsum'[m]
              /\ mons'[m].duration < mons[m].duration =>
                    /\ mons'[m].duration = 0
                    /\ last'.op \in {"flush", "exit"}
                    /\ last'.self \in {m} \cup Parents(mons, m)
                    /\ last'.op = "exit" => mons[last'.self].autoflush
       ]_vars

----------------------------------------------------------------------------
(* C14 *)

IsPrefix(s, t) == Len(s) <= Len(t) /\ SubSeq(t, 1, Len(s)) = s

\* the effects of a step: those of the call it makes (the clock advancing
\* is no call and has none)
StepEffects == IF now' = now THEN io' ELSE <<>>

\* the effects es include the creation of the dataset
Creates(es) == \E k \in DOMAIN es : es[k][1] = "create"

\* C14: the store is append-only. Whatever the step, the rows the dataset
\* held before are a prefix of the rows it holds after, and a file or a
\* dataset that exists keeps existing; the dataset is created only when it
\* is absent, by a flush that appends at least one row, and a flush that
\* finds it appends without creating it.
C14_AppendOnly ==
    [][/\ IsPrefix(h5.rows, h5'.rows)
       /\ h5.file => h5'.file
       /\ h5.dataset => (h5'.dataset /\ ~Creates(StepEffects))
       /\ (~h5.dataset /\ h5'.dataset) =>
             /\ last'.op \in {"flush", "exit"}
             /\ Creates(StepEffects)
             /\ Len(h5'.rows) > 0
       /\ Creates(StepEffects) => (~h5.dataset /\ h5'.dataset)
      ]_vars

\* a flush appended rows to a dataset that an earlier flush had created and
\* filled
C14_Witness ==
    /\ last.op = "flush"
    /\ io = <<<<"open", Path>>, <<"extend", 2>>, <<"close", Path>>>>
    /\ Len(h5.rows) > 2

----------------------------------------------------------------------------
(* C15 *)

RECURSIVE TotalSent(_, _)
\* the number of records the flushes of the monitors in S collected for
\* the file
TotalSent(fs, S) ==
    IF S = {} THEN 0
    ELSE LET i == CHOOSE j \in S : TRUE
         IN  fs[i].sent + TotalSent(fs, S \ {i})

\* C15 (as claimed): however the flushes of distinct monitors to the one
\* file interleave, each completes its open, append, close (none raises),
\* and once no flush is running the dataset holds every record that a flush
\* collected, also when two flushes both found the dataset absent.
C15_InterleavedFlushes ==
    /\ last.op = "flush" => raised = "None"
    /\ (\A m \in Ids : flushing[m].pc = "idle") =>
          Len(h5.rows) = TotalSent(flushing, Ids)

----------------------------------------------------------------------------
(* C16 *)

\* C16 (as claimed): a flush that has returned or raised, also because the
\* append failed, has no file handle left open.
C16_HandleReleased ==
    \A m \in Ids : flushing[m].pc = "idle" => flushing[m].open = 0

----------------------------------------------------------------------------
(* C17 *)

\* the effects es include the opening of a file
Opens(es) == \E k \in DOMAIN es : es[k][1] = "open"

\* the records with a nonzero duration of m and its children, in the order
\* m then the children
RECURSIVE Collected(_, _)
Collected(ms, order) ==
    IF order = <<>> THEN <<>>
    ELSE (IF ms[Head(order)].duration # 0
          THEN <<[operation |-> OpField(ms[Head(order)].operation),
                  time_sec |-> ms[Head(order)].duration,
                  memory_mb |-> 0,
                  counts |-> 1]>>
          ELSE <<>>) \o Collected(ms, Tail(order))

\* C17: sink routing. A flush of m that has records to deliver appends all
\* of them to the dataset and prints nothing when m has a hdf5path, and
\* otherwise prints each of them, one print for each in collection order,
\* and opens no file. No call both prints and appends.
C17_SinkRouting ==
    [][/\ \A m \in Ids :
             LET data == Collected(mons, <<m>> \o mons[m].children)
             IN  (IsPerf(m) /\ Flush(m) /\ data # <<>>) =>
                     IF mons[m].hdf5path # NoPath
                     THEN /\ Appended = data
                          /\ Printed(io') = <<>>
                          /\ Opens(io')
                          /\ io'[Len(io')] = <<"close", mons[m].hdf5path>>
                     ELSE /\ io' = [k \in DOMAIN data |-> <<"print", data[k]>>]
                          /\ h5' = h5
       /\ ~(Printed(StepEffects) # <<>> /\ (Opens(StepEffects) \/ h5' # h5))
      ]_vars

\* a flush printed two records, that of the monitor and that of its child,
\* while the file holds what a flush with a hdf5path appended
C17_Witness ==
    /\ last.op = "flush"
    /\ mons[last.self].hdf5path = NoPath
    /\ Len(Printed(io)) = 2
    /\ Len(io) = 2
    /\ h5.rows # <<>>

----------------------------------------------------------------------------
(* C18 *)

----------------------------------------------------------------------------
(* C19 *)

\* C19 (as claimed): enter sets the pid to the current process id when it
\* is unset (None) and keeps a pid that was given or cleared (0); it clears
\* exc, records the start time and returns the monitor; duration and mem
\* are as before.
C19_EnterFresh ==
    [][\A m \in Ids : \A sample \in SamplesFor(m) :
          (IsPerf(m) /\ Enter(m, sample)) =>
              /\ mons'[m].pid =
                    IF mons[m].pid = None THEN OsPid ELSE mons[m].pid
              /\ mons'[m].exc = "None"
              /\ mons'[m].start_time = now
              /\ ret' = <<m>>
              /\ mons'[m].duration = mons[m].duration
              /\ mons'[m].mem = mons[m].mem
       ]_vars

\* C19 (amended): as claimed, except for the pid when measuremem is on and
\* the memory lookup that enter makes is denied: the pid, given or just
\* set, is then cleared to 0 and the starting memory is None. Otherwise the
\* starting memory is the rss looked up, on the pid as enter left it. Enter
\* changes no other attribute and no other monitor.
C19_EnterFreshUnlessDenied ==
    [][\A m \in Ids : \A sample \in SamplesFor(m) :
          (IsPerf(m) /\ Enter(m, sample)) =>
              LET pid1 == IF mons[m].pid = None THEN OsPid ELSE mons[m].pid
                  looks == mons[m].measuremem /\ pid1 # 0
                  denied == looks /\ sample = Denied
              IN  /\ mons'[m].pid = IF denied THEN 0 ELSE pid1
                  /\ mons'[m].exc = "None"
                  /\ mons'[m].start_time = now
                  /\ ret' = <<m>>
                  /\ raised' = "None"
                  /\ io' = IF looks THEN <<<<"sample", pid1>>>> ELSE <<>>
                  /\ mons[m].measuremem =>
                        mons'[m].start_mem =
                            IF looks /\ ~denied THEN sample ELSE None
                  /\ mons' = [mons EXCEPT
                                ![m].pid = mons'[m].pid,
                                ![m].exc = "None",
                                ![m].start_time = now,
                                ![m].start_mem = mons'[m].start_mem]
       ]_vars

\* a monitor spawned with a pid entered a scope, the lookup on that pid was
\* denied and the pid is cleared
C19_Witness ==
    /\ last.op = "enter"
    /\ IsPerf(last.self)
    /\ io = <<<<"sample", GivenPid>>>>
    /\ mons[last.self].pid = 0
    /\ mons[last.self].start_mem = None

----------------------------------------------------------------------------
(* C20 *)

\* the time in the records that a step delivered for monitor i: a flush of
\* f (called directly, or by the exit of f when f has autoflush) delivers
\* the duration that i held, for i among f and its direct children
DeliveredFor(i) ==
    IF /\ last'.op \in {"flush", "exit"}
       /\ now' = now
       /\ IsPerf(last'.self)
       /\ last'.op = "exit" => mons'[last'.self].autoflush
       /\ i \in Direct(mons, last'.self)
       /\ Delivered # <<>>
    THEN IF i = last'.self THEN TotalTime(Delivered)
                                   - TotalDuration(mons, Direct(mons, i) \ {i})
         ELSE mons[i].duration
    ELSE 0

\* the length of the cycle of monitor i that a step completed
CycleEnded(i) ==
    IF last' = [op |-> "exit", self |-> i] /\ i \in active /\ i \notin active'
    THEN now - mons[i].start_time
    ELSE 0

\* C20 (as claimed): measured time is conserved. A monitor starts with no
\* time accounted for, and every step keeps the balance of every monitor:
\* the time delivered for it in the step plus the duration it holds after
\* equals the duration it held before plus the length of the cycle of its
\* own that the step completed; so the records emitted for a monitor and
\* its current duration always add up to the lengths of its own cycles.
C20_TimeConserved ==
    [][/\ \A i \in Ids :
             IsPerf(i) =>
                 DeliveredFor(i) + mons'[i].duration =
                     mons[i].duration + CycleEnded(i)
       /\ \A i \in DOMAIN mons' \ Ids :
             mons'[i].cls = "PerformanceMonitor" => mons'[i].duration = 0
      ]_vars

----------------------------------------------------------------------------
(* C21 *)

\* C21: the frame of flush. A flush of m (called directly, or by the exit
\* of m when m has autoflush) leaves every monitor that is neither m nor a
\* direct child of m exactly as it was: the parent of m, its siblings, its
\* grandchildren; a direct flush changes nothing but duration and mem on m
\* and on its direct children, so operation, hdf5path, autoflush,
\* measuremem, pid and children of every monitor stay as they were, and no
\* monitor is added or removed.
C21_FlushFrame ==
    [][\A m \in Ids :
          IsPerf(m) =>
              /\ Flush(m) =>
                    /\ DOMAIN mons' = Ids
                    /\ \A i \in Ids \ Direct(mons, m) : mons'[i] = mons[i]
                    /\ \A i \in Direct(mons, m) :
                          mons'[i] = [mons[i] EXCEPT !.duration = 0, !.mem = 0]
              /\ (\E exc \in env.outcomes :
                     \E sample \in SamplesFor(m) : Exit(m, exc, sample)) =>
                    /\ DOMAIN mons' = Ids
                    /\ \A i \in Ids \ Direct(mons, m) : mons'[i] = mons[i]
                    /\ \A i \in Direct(mons, m) \ {m} :
                          mons'[i] = mons[i]
                          \/ (mons[m].autoflush /\
                              mons'[i] = [mons[i] EXCEPT !.duration = 0,
                                                         !.mem = 0])
       ]_vars

\* the first of two children delivered its record in a flush of its own
\* and holds nothing, while its parent and its sibling hold their durations
C21_Witness ==
    /\ last.op = "flush"
    /\ Len(mons[1].children) = 2
    /\ last.self = mons[1].children[1]
    /\ io # <<>>
    /\ mons[last.self].duration = 0
    /\ mons[1].duration = 1
    /\ mons[mons[1].children[2]].duration = 1

====
